---- MODULE Spec2Model ----
(***************************************************************************)
(* Token-bucket rate limiter (package rateLimiter): the bucket check of    *)
(* bucket.go over the two Storage implementations of storage.go.           *)
(*                                                                         *)
(* Representation.  Clock readings are whole seconds.  Token amounts are   *)
(* fixed-point numbers held in units of 1/Scale token, so a float64 value  *)
(* x of the source is the integer x * Scale here; the policies below use   *)
(* rates for which every product and sum of the source is exact in both.   *)
(* The zero time.Time{} is the reading ZeroTime, earlier than any clock    *)
(* reading.                                                                 *)
(***************************************************************************)
EXTENDS Integers, FiniteSets, Sequences, TLC

\* ---------------------------------------------------------------- bounds
MaxTime == 3          \* last clock reading explored
MaxSkew == 1          \* seconds that may pass inside one check before its Storage calls
MaxCalls == 3         \* checks per behaviour
MaxFaults == 1        \* checks per behaviour in which a Storage call fails
MaxReqs == 2          \* requests the middleware serves per behaviour
MaxOps == 4           \* concurrent Storage calls made on one key per behaviour

\* ------------------------------------------------------------- constants
Scale == 2            \* token units per token (fixed-point resolution)
CleanupThreshold == 10000
ZeroTime == -1

\* keys the bucket checks of Spec, SpecFault and SpecFailover are made on
CheckedKeys == {"k1", "k2"}

\* ---- the configuration and the requests of the middleware
KeyPrefix == "rl"

\* cfg.GlobalSecurity; BlockDuration in seconds
GlobalSecurity ==
  [ BypassTokens |-> {"tok"},
    WhitelistIPs |-> {"192.168.1.1", "10.0.0.0/24"},
    MaxFailedAttempts |-> 1,
    BlockDuration |-> 900 ]

SkipPaths == {"/health"}

\* source addresses: one listed itself, one inside the listed range, one neither
IPs == {"192.168.1.1", "10.0.0.5", "203.0.113.9"}

\* request paths; the route of a request is its path
Paths == {"/health", "/api/login", "/api/data", "/api_data"}

\* a path as the sequence of its separators and the names between them
Pieces ==
  [ p \in Paths |->
      IF p = "/health" THEN <<"/", "health">>
      ELSE IF p = "/api/login" THEN <<"/", "api", "/", "login">>
      ELSE IF p = "/api/data" THEN <<"/", "api", "/", "data">>
      ELSE <<"/", "api", "_", "data">> ]

RECURSIVE TrimLeft(_, _)
TrimLeft(s, cutset) ==
  IF s # <<>> /\ Head(s) = cutset THEN TrimLeft(Tail(s), cutset) ELSE s

RECURSIVE TrimRight(_, _)
TrimRight(s, cutset) ==
  IF s # <<>> /\ s[Len(s)] = cutset
    THEN TrimRight(SubSeq(s, 1, Len(s) - 1), cutset)
    ELSE s

\* strings.Trim(s, cutset)
Trim(s, cutset) == TrimRight(TrimLeft(s, cutset), cutset)

\* strings.ReplaceAll(s, old, new)
ReplaceAll(s, old, new) == [i \in 1..Len(s) |-> IF s[i] = old THEN new ELSE s[i]]

\* the string a sequence of pieces spells
RECURSIVE Join(_)
Join(s) == IF s = <<>> THEN "" ELSE Head(s) \o Join(Tail(s))

\* strings.ReplaceAll(strings.Trim(path, "/"), "/", "_")
Endpoint ==
  [ p \in Paths |-> Join(ReplaceAll(Trim(Pieces[p], "/"), "/", "_")) ]

\* strings.Contains(endpoint, "auth") || strings.Contains(endpoint, "login")
IsAuthEndpoint(endpoint) == endpoint \in {"api_login"}

\* what cfg.GetUserTier returns
Tiers == {"free", "pro", "basic"}

\* cfg.TierPolicy; TokensPerSecond in token units per second as in Policies
TierPolicy ==
  [ tier \in Tiers |->
      IF tier = "free"
        THEN [BurstCapacity |-> 3, TokensPerSecond |-> 2,
              WebSocketAllowed |-> FALSE, RequireAuthentication |-> TRUE]
      ELSE IF tier = "pro"
        THEN [BurstCapacity |-> 1, TokensPerSecond |-> 4,
              WebSocketAllowed |-> TRUE, RequireAuthentication |-> FALSE]
        ELSE [BurstCapacity |-> 1, TokensPerSecond |-> 2,
              WebSocketAllowed |-> FALSE, RequireAuthentication |-> TRUE] ]

\* cfg.DefaultPolicy
DefaultPolicy ==
  [BurstCapacity |-> 1, TokensPerSecond |-> 2,
   WebSocketAllowed |-> FALSE, RequireAuthentication |-> FALSE]

\* the policies of the RateLimiterConfig passed to RateLimiter
Config == [TierPolicy |-> TierPolicy, DefaultPolicy |-> DefaultPolicy]

\* fmt.Sprintf("%s:%s:%s", cfg.KeyPrefix, identifier, endpoint), with ":ws"
\* appended for a WebSocket upgrade
BucketKey(identifier, endpoint, ws) ==
  KeyPrefix \o ":" \o identifier \o ":" \o endpoint \o (IF ws THEN ":ws" ELSE "")

\* cfg.GetUserID(c), or c.IP() when that is empty
Identifier(req) == IF req.user = "" THEN req.ip ELSE req.user

Req(ip, token, user, path, ws, tier) ==
  [ip |-> ip, token |-> token, user |-> user, path |-> path, ws |-> ws,
   tier |-> tier]

\* the requests served: token is the X-RateLimit-Bypass header, user is what
\* cfg.GetUserID returns ("" for a caller who is not authenticated), ws is
\* websocket.IsWebSocketUpgrade(c), tier is what cfg.GetUserTier returns
Requests ==
  { Req("203.0.113.9", "",    "",   "/health",    FALSE, ""),
    Req("203.0.113.9", "",    "",   "/health",    TRUE,  ""),
    Req("203.0.113.9", "tok", "",   "/api/login", FALSE, ""),
    Req("203.0.113.9", "tok", "",   "/api/login", TRUE,  ""),
    Req("203.0.113.9", "bad", "",   "/api/login", FALSE, ""),
    Req("192.168.1.1", "",    "",   "/api/login", FALSE, ""),
    Req("10.0.0.5",    "",    "",   "/api/login", FALSE, ""),
    Req("203.0.113.9", "",    "",   "/api/login", FALSE, ""),
    Req("203.0.113.9", "",    "u1", "/api/login", FALSE, ""),
    Req("203.0.113.9", "",    "",   "/api/data",  FALSE, "pro"),
    Req("203.0.113.9", "",    "",   "/api/login", TRUE,  ""),
    Req("203.0.113.9", "",    "",   "/api/login", TRUE,  "pro"),
    Req("203.0.113.9", "",    "u1", "/api/data",  FALSE, "gold"),
    Req("203.0.113.9", "",    "u1", "/api_data",  FALSE, "gold"),
    Req("203.0.113.9", "",    "",   "/api/data",  FALSE, "basic") }

\* the keys built from the requests
RequestKeys ==
  { BucketKey(Identifier(req), Endpoint[req.path], req.ws) : req \in Requests }

\* every key a store can hold an entry for
Keys == CheckedKeys \cup RequestKeys

\* Policy.TokensPerSecond is held in token units per second (rate * Scale).
Policies ==
  { [BurstCapacity |-> 3, TokensPerSecond |-> 2],    \* 1.0 token/s
    [BurstCapacity |-> 1, TokensPerSecond |-> 4],    \* 2.0 tokens/s
    [BurstCapacity |-> 1, TokensPerSecond |-> 1] }   \* 0.5 token/s

\* Implementations a primaryStorage can be.  The fallback is always an
\* InMemoryStorage.  With no Redis client the handler passes one InMemoryStorage
\* as both stores; every update then reaches it twice with the same values, which
\* leaves it as the two equal stores of kind "memory" are left here.
StoreKinds == {"memory", "redis"}

VARIABLES
  now,          \* the wall clock: the reading time.Now() returns
  primaryKind,  \* implementation behind primaryStorage
  others,       \* entries of an in-memory map that belong to keys outside Keys
  primary,      \* primaryStorage:  key -> bucket entry
  fallback,     \* fallbackStorage: key -> bucket entry (InMemoryStorage)
  touched,      \* keys for which an UpdateBucket has been issued
  calls,        \* checkTokenBucket calls made so far
  faults,       \* calls so far in which a Storage call failed
  idle,         \* seconds since the most recent call returned
  burst,        \* length of the run of immediate checks on a key that was new
  refill,       \* 1: the last call came 1/TokensPerSecond after such a run
                \* of BurstCapacity checks; 2: the immediate call after that one
  last,         \* the most recent checkTokenBucket call and what it returned
  refPrimary,   \* primary store of the reference run (a primary that never fails)
  refLast,      \* what the reference run returned for the most recent call
  procs,        \* concurrent checkTokenBucket calls: position and locals of each
  batch,        \* the calls made at one clock reading since no call was running
  failed,       \* Redis: source IP -> failed-attempt counter
  blocked,      \* Redis: source IP -> clock reading at which its block key expires
  resp,         \* the most recent request and what the middleware did with it
  cfg,          \* the RateLimiterConfig the handler closes over: its policies
  cell,         \* one key of one store: which UpdateBucket wrote each field
  mutex,        \* InMemoryStorage.mutex
  pending,      \* Redis: the commands each client has sent that are not yet served
  workers,      \* goroutines calling the store: position and locals of each
  issued        \* Storage calls started so far

vars == <<now, primaryKind, others, primary, fallback, touched, calls, faults,
          idle, burst, refill, last, refPrimary, refLast,
          procs, batch, failed, blocked, resp, cfg,
          cell, mutex, pending, workers, issued>>

\* state of the concurrent calls and of the middleware
concVars == <<procs, batch>>

httpVars == <<failed, blocked, resp, cfg>>

\* state of the bucket checks and of the Storage calls made on one key
bucketVars == <<now, primaryKind, others, primary, fallback, touched, calls,
                faults, idle, burst, refill, last, refPrimary, refLast>>

storeVars == <<cell, mutex, pending, workers, issued>>

\* ------------------------------------------------------------ arithmetic
Min(a, b) == IF a < b THEN a ELSE b

Max(a, b) == IF a > b THEN a ELSE b

\* math.Ceil(a / b) for b > 0
CeilDiv(a, b) == -((-a) \div b)

\* ----------------------------------------------------------------- store
NoEntry == [present |-> FALSE, tokens |-> 0, lastUpdate |-> 0, expiry |-> 0]

NewStorage == [k \in Keys |-> NoEntry]

\* time.Now().After(bucket.expiry); a Redis key is gone once its TTL passed
Expired(e, t) == t > e.expiry

Live(e, t) == e.present /\ ~Expired(e, t)

\* Storage.GetBucket at clock reading t; fail: the store returns an error
GetBucket(store, key, t, fail) ==
  IF fail
    THEN [tokens |-> 0, lastUpdate |-> ZeroTime, err |-> TRUE]
    ELSE IF ~store[key].present \/ Expired(store[key], t)
      THEN [tokens |-> 0, lastUpdate |-> t, err |-> FALSE]
      ELSE [tokens |-> store[key].tokens,
            lastUpdate |-> store[key].lastUpdate, err |-> FALSE]

\* len(ims.buckets)
MapLen(store) == others + Cardinality({k \in Keys : store[k].present})

\* the cleanup loop of InMemoryStorage.UpdateBucket
Cleanup(store, t) ==
  IF MapLen(store) > CleanupThreshold
    THEN [k \in Keys |-> IF store[k].present /\ Expired(store[k], t)
                           THEN NoEntry ELSE store[k]]
    ELSE store

\* Storage.UpdateBucket at clock reading t
UpdateBucket(store, kind, key, tokens, ttl, t, fail) ==
  IF fail THEN store
  ELSE IF kind = "memory"
    THEN [Cleanup(store, t) EXCEPT ![key] =
            [present |-> TRUE, tokens |-> tokens,
             lastUpdate |-> t, expiry |-> t + ttl]]
    ELSE IF ttl <= 0
      THEN [store EXCEPT ![key] = NoEntry]     \* EXPIRE key 0 deletes the key
      ELSE [store EXCEPT ![key] =
              [present |-> TRUE, tokens |-> tokens,
               lastUpdate |-> t, expiry |-> t + ttl]]

\* ---------------------------------------------------------- token bucket
\* ttl := time.Duration(float64(BurstCapacity)/TokensPerSecond) * time.Second
TTL(policy) == (policy.BurstCapacity * Scale) \div policy.TokensPerSecond

Capacity(policy) == policy.BurstCapacity * Scale

\* (mutant) the refill without the cap at BurstCapacity
RefillUncapped(tokens, lastUpdate, t0, policy) ==
  tokens + (t0 - lastUpdate) * policy.TokensPerSecond

\* the refill branch: min(BurstCapacity, tokens + elapsed * TokensPerSecond)
Refill(tokens, lastUpdate, t0, policy) ==
  Min(Capacity(policy), tokens + (t0 - lastUpdate) * policy.TokensPerSecond)

\* lastUpdate.IsZero()
IsZero(t) == t = ZeroTime

\* tokens after the initialise-or-refill step
Balance(rd, t0, policy) ==
  IF IsZero(rd.lastUpdate)
    THEN Capacity(policy)
    ELSE Refill(rd.tokens, rd.lastUpdate, t0, policy)

\* (mutant) the wait truncated to whole seconds instead of rounded up
SecondsToWaitTruncated(tokens, policy) ==
  Max(1, (Scale - tokens) \div policy.TokensPerSecond)

\* secondsToWait of the deny branch
SecondsToWait(tokens, policy) ==
  Max(1, CeilDiv(Scale - tokens, policy.TokensPerSecond))

\* the test "tokens < 1" decides the deny branch
Allowed(tokens) == ~(tokens < Scale)

\* the tokens value handed to the final updateBothStorages
Persisted(tokens) == IF Allowed(tokens) THEN tokens - Scale ELSE tokens

\* Which Storage calls of one check return an error.  The fallback is read
\* only after the primary read failed, and nothing is written after both
\* reads failed, so the other combinations repeat these.
Failures ==
  { f \in [pr : BOOLEAN, fr : BOOLEAN, pw : BOOLEAN, fw : BOOLEAN] :
      /\ f.fr => f.pr
      /\ (f.pr /\ f.fr) => (~f.pw /\ ~f.fw) }

NoFailure == [pr |-> FALSE, fr |-> FALSE, pw |-> FALSE, fw |-> FALSE]

\* a primary whose GetBucket and UpdateBucket fail (FailingStorage)
PrimaryDown == [pr |-> TRUE, fr |-> FALSE, pw |-> TRUE, fw |-> FALSE]

\* (mutant) the first failed write ends the update and is reported
updateBothStoragesAbort(P, F, kind, key, tokens, ttl, t, f) ==
  [primary  |-> UpdateBucket(P, kind, key, tokens, ttl, t, f.pw),
   fallback |-> IF f.pw THEN F
                ELSE UpdateBucket(F, "memory", key, tokens, ttl, t, f.fw),
   err      |-> f.pw \/ f.fw]

\* (mutant) the bucket read without the fallback
ReadBucketPrimaryOnly(P, F, key, t, f) == GetBucket(P, key, t, f.pr)

\* the read of checkTokenBucket: the primary, and on its error the fallback
ReadBucket(P, F, key, t, f) ==
  LET rp == GetBucket(P, key, t, f.pr)
  IN IF rp.err THEN GetBucket(F, key, t, f.fr) ELSE rp

\* updateBothStorages: both writes are issued, their errors are dropped
updateBothStorages(P, F, kind, key, tokens, ttl, t, f) ==
  [primary  |-> UpdateBucket(P, kind, key, tokens, ttl, t, f.pw),
   fallback |-> UpdateBucket(F, "memory", key, tokens, ttl, t, f.fw),
   err      |-> FALSE]

\* what the serving store held for the key when it was read
EntryState(e, t) ==
  IF ~e.present THEN "missing" ELSE IF Expired(e, t) THEN "expired" ELSE "live"

NoCall ==
  [called |-> FALSE, key |-> "k1", policy |-> CHOOSE p \in Policies : TRUE,
   f |-> NoFailure, entry |-> "none", zero |-> FALSE, stored |-> 0,
   elapsed |-> 0, balance |-> 0, allowed |-> FALSE, retryAfter |-> 0,
   err |-> FALSE]

\* checkTokenBucket(key, policy) over the stores P (primary, of the given
\* kind) and F (fallback), started at clock reading t0, its Storage calls
\* made at reading t >= t0, with the Storage errors f.
checkTokenBucket(P, F, kind, key, policy, t0, t, f) ==
  LET rd == ReadBucket(P, F, key, t, f)
      served == IF f.pr THEN F[key] ELSE P[key]
      ttl == TTL(policy)
      tokens == Balance(rd, t0, policy)
      w0 == IF IsZero(rd.lastUpdate)
              THEN updateBothStorages(P, F, kind, key, tokens, ttl, t, f)
              ELSE [primary |-> P, fallback |-> F, err |-> FALSE]
      w == updateBothStorages(w0.primary, w0.fallback, kind, key,
                              Persisted(tokens), ttl, t, f)
      call == [called |-> TRUE, key |-> key, policy |-> policy, f |-> f,
               entry |-> "none", zero |-> FALSE, stored |-> 0, elapsed |-> 0,
               balance |-> 0, allowed |-> FALSE, retryAfter |-> 0,
               err |-> FALSE]
  IN
  IF rd.err
    THEN [primary |-> P, fallback |-> F, wrote |-> FALSE,
          ret |-> [call EXCEPT !.err = TRUE]]
    ELSE [primary |-> w.primary, fallback |-> w.fallback, wrote |-> TRUE,
          ret |-> [call EXCEPT
                     !.entry = EntryState(served, t),
                     !.zero = IsZero(rd.lastUpdate),
                     !.stored = rd.tokens,
                     !.elapsed = IF IsZero(rd.lastUpdate) THEN 0 ELSE t0 - rd.lastUpdate,
                     !.balance = tokens,
                     !.allowed = Allowed(tokens) /\ ~(w0.err \/ w.err),
                     !.retryAfter = IF Allowed(tokens) THEN 0
                                    ELSE SecondsToWait(tokens, policy),
                     !.err = w0.err \/ w.err]]

\* ------------------------------------------------- concurrent calls: state
\* goroutines that run checkTokenBucket
Procs == {"p1", "p2"}

\* the key and the policy of the concurrent calls
ConcKey == "k1"

ConcPolicy == [BurstCapacity |-> 3, TokensPerSecond |-> 2]

\* a goroutine outside checkTokenBucket; t0 is its now, rd what its read returned
IdleProc ==
  [pc |-> "idle", t0 |-> 0, inBatch |-> FALSE,
   rd |-> [tokens |-> 0, lastUpdate |-> 0, err |-> FALSE]]

\* at: the clock reading of the batch; avail: whole tokens the key had when the
\* batch began; allowed: calls of the batch that returned allowed = true at it
NoBatch == [at |-> ZeroTime, avail |-> 0, allowed |-> 0]

\* ------------------------------------------------- Storage calls: state
\* goroutines that call GetBucket and UpdateBucket on one key of one store
Workers == {"w1", "w2", "w3"}

\* The fields of the key's entry.  An UpdateBucket is numbered when it starts
\* and a field holds the number of the UpdateBucket that wrote it, 0 when the
\* field is absent.
NoCell == [tokens |-> 0, lastUpdate |-> 0, expiry |-> 0]

\* sync.RWMutex: held by a writer, or by a number of readers
Unlocked == [writer |-> FALSE, readers |-> 0]

\* what a GetBucket returned: missing is the (0, time.Now(), nil) answer
NoGot == [done |-> FALSE, missing |-> FALSE, tokens |-> 0, lastUpdate |-> 0]

IdleWorker == [pc |-> "idle", id |-> 0, ttl |-> 0, got |-> NoGot]

\* the expiry durations checkTokenBucket passes to UpdateBucket
Ttls == {TTL(policy) : policy \in Policies}

\* ------------------------------------------------------ middleware: state
\* no block key is present
NoBlock == ZeroTime

NoBlocks == [ip \in IPs |-> NoBlock]

NoRequest ==
  [ip |-> "", token |-> "", user |-> "", path |-> "", ws |-> FALSE, tier |-> "free"]

\* no policy has been resolved
NoPolicy ==
  [BurstCapacity |-> 0, TokensPerSecond |-> 0,
   WebSocketAllowed |-> FALSE, RequireAuthentication |-> FALSE]

\* handled: a request was served; next: c.Next() was called; status: the last
\* status the middleware set (0: none); security: checkSecurity ran; bucket:
\* checkTokenBucket ran; remaining: X-RateLimit-Remaining (-1: not set);
\* left: tokens the check left in the bucket; panicked: the handler panicked;
\* policy: the policy resolved for the tier, before any halving
NoResp ==
  [handled |-> FALSE, req |-> NoRequest, next |-> FALSE, status |-> 0,
   security |-> FALSE, bucket |-> FALSE, allowed |-> FALSE, remaining |-> -1,
   left |-> 0, recorded |-> FALSE, panicked |-> FALSE, policy |-> NoPolicy]

\* ------------------------------------------------------------------ init
InitBuckets(O) ==
  /\ now = 0
  /\ primaryKind \in StoreKinds
  /\ others \in O
  /\ primary = NewStorage
  /\ fallback = NewStorage
  /\ touched = {}
  /\ calls = 0
  /\ faults = 0
  /\ idle = 0
  /\ burst = 0
  /\ refill = 0
  /\ last = NoCall
  /\ refPrimary = NewStorage
  /\ refLast = NoCall

\* no concurrent call is running, and the middleware has served no request
InitIdle ==
  /\ procs = [p \in Procs |-> IdleProc]
  /\ batch = NoBatch
  /\ failed = [ip \in IPs |-> 0]
  /\ resp = NoResp
  /\ cfg = Config
  /\ cell = NoCell
  /\ mutex = Unlocked
  /\ pending = [w \in Workers |-> <<>>]
  /\ workers = [w \in Workers |-> IdleWorker]
  /\ issued = 0

InitWith(O) == InitBuckets(O) /\ InitIdle /\ blocked = NoBlocks

\* an in-memory map may already hold CleanupThreshold entries of other keys
Init == InitWith({0, CleanupThreshold})

InitFault == InitWith({0})

\* --------------------------------------------------------------- actions
\* time passes between two requests
Tick ==
  /\ now < MaxTime
  /\ now' = now + 1
  /\ idle' = idle + 1
  /\ UNCHANGED <<primaryKind, others, primary, fallback, touched, calls, faults,
                 burst, refill, last, refPrimary, refLast>>
  /\ UNCHANGED <<concVars, httpVars, storeVars>>

\* the call repeats the key and policy of the previous one, with no Storage error
Repeats(key, policy, f) ==
  last.called /\ last.key = key /\ last.policy = policy /\ f = NoFailure

\* the run of immediate checks made on a key since it was new, all with the
\* same policy, with no Storage error and no time passing
BurstAfter(key, policy, d, f) ==
  IF d # 0 \/ f # NoFailure THEN 0
  ELSE IF key \notin touched THEN 1
  ELSE IF burst > 0 /\ Repeats(key, policy, f) /\ idle = 0 THEN burst + 1
  ELSE 0

\* the call made 1/TokensPerSecond seconds after a run of BurstCapacity
\* immediate checks (1), and the immediate call after it (2)
RefillAfter(key, policy, d, f) ==
  IF /\ Repeats(key, policy, f)
     /\ burst >= policy.BurstCapacity
     /\ idle * policy.TokensPerSecond = Scale
    THEN 1
  ELSE IF Repeats(key, policy, f) /\ refill = 1 /\ idle = 0 /\ d = 0 THEN 2
  ELSE 0

\* one call of checkTokenBucket; d seconds pass before its Storage calls
Call(key, policy, d, f) ==
  LET r == checkTokenBucket(primary, fallback, primaryKind, key, policy,
                            now, now + d, f)
  IN /\ calls < MaxCalls
     /\ now + d <= MaxTime
     /\ calls' = calls + 1
     /\ faults' = IF f # NoFailure THEN faults + 1 ELSE faults
     /\ now' = now + d
     /\ idle' = 0
     /\ primary' = r.primary
     /\ fallback' = r.fallback
     /\ touched' = IF r.wrote THEN touched \cup {key} ELSE touched
     /\ burst' = BurstAfter(key, policy, d, f)
     /\ refill' = RefillAfter(key, policy, d, f)
     /\ last' = r.ret
     /\ UNCHANGED <<primaryKind, others>>
     /\ UNCHANGED <<concVars, storeVars>>

\* checks of any key under any policy, the stores answering every call
Check ==
  \E key \in CheckedKeys, policy \in Policies, d \in 0..MaxSkew :
    /\ Call(key, policy, d, NoFailure)
    /\ UNCHANGED <<refPrimary, refLast>>
    /\ UNCHANGED httpVars

Next == Tick \/ Check

Spec == Init /\ [][Next]_vars

\* checks of one key whose Storage calls may return errors
CheckFault ==
  \E policy \in Policies, f \in Failures :
    /\ f # NoFailure => faults < MaxFaults
    /\ Call("k1", policy, 0, f)
    /\ UNCHANGED <<refPrimary, refLast>>
    /\ UNCHANGED httpVars

NextFault == Tick \/ CheckFault

SpecFault == InitFault /\ [][NextFault]_vars

\* The same call made in the reference run: the same stores, but a primary
\* that answers every call, so its fallback is written and never read.
RefCall(key, policy, d) ==
  LET r == checkTokenBucket(refPrimary, NewStorage, primaryKind, key, policy,
                            now, now + d, NoFailure)
  IN /\ refPrimary' = r.primary
     /\ refLast' = r.ret

\* checks against a primary that fails on every call, each also made in the
\* reference run
CheckFailover ==
  \E key \in CheckedKeys, policy \in Policies, d \in 0..MaxSkew :
    /\ Call(key, policy, d, PrimaryDown)
    /\ RefCall(key, policy, d)
    /\ UNCHANGED httpVars

NextFailover == Tick \/ CheckFailover

SpecFailover == InitFault /\ [][NextFailover]_vars

\* the primary fails the read of a check, and may fail its write as well
ReadFailures == {f \in Failures : f.pr /\ ~f.fr /\ ~f.fw}

\* checks with both stores healthy, and checks whose primary read fails; each
\* is also evaluated as the same stores would answer it with no failure
CheckWarm ==
  \E policy \in Policies, d \in 0..MaxSkew, f \in {NoFailure} \cup ReadFailures :
    /\ f # NoFailure => faults < MaxFaults
    /\ Call("k1", policy, d, f)
    /\ refLast' = checkTokenBucket(primary, fallback, primaryKind, "k1", policy,
                                   now, now + d, NoFailure).ret
    /\ UNCHANGED refPrimary
    /\ UNCHANGED httpVars

NextWarm == Tick \/ CheckWarm

SpecWarm == InitFault /\ [][NextWarm]_vars

\* ------------------------------------------------------- concurrent calls
\* Goroutines run checkTokenBucket on one key, the stores answering every
\* call.  Each Storage call takes its store's lock for itself, so the steps of
\* a call are: read the clock, GetBucket, UpdateBucket on the primary,
\* UpdateBucket on the fallback.

AllIdle == \A p \in Procs : procs[p].pc = "idle"

\* whole tokens a check of the key at reading t would find
Available(store, key, policy, t) ==
  Max(0, Balance(GetBucket(store, key, t, FALSE), t, policy)) \div Scale

\* now := time.Now()
Begin(p) ==
  /\ procs[p].pc = "idle"
  /\ calls < MaxCalls
  /\ calls' = calls + 1
  /\ batch' = IF AllIdle /\ batch.at # now
                THEN [at |-> now, allowed |-> 0,
                      avail |-> Available(primary, ConcKey, ConcPolicy, now)]
                ELSE batch
  /\ procs' = [procs EXCEPT ![p] = [IdleProc EXCEPT !.pc = "started", !.t0 = now,
                                      !.inBatch = (batch'.at = now)]]
  /\ UNCHANGED <<now, primaryKind, others, primary, fallback, touched, faults,
                 idle, burst, refill, last, refPrimary, refLast>>
  /\ UNCHANGED <<httpVars, storeVars>>

\* primaryStorage.GetBucket(ctx, key)
Get(p) ==
  /\ procs[p].pc = "started"
  /\ procs' = [procs EXCEPT ![p].pc = "read",
                             ![p].rd = GetBucket(primary, ConcKey, now, FALSE)]
  /\ UNCHANGED <<now, primaryKind, others, primary, fallback, touched, calls,
                 faults, idle, burst, refill, last, refPrimary, refLast, batch>>
  /\ UNCHANGED <<httpVars, storeVars>>

\* the balance a call computes from what it read
Computed(p) == Balance(procs[p].rd, procs[p].t0, ConcPolicy)

\* what the call of p returns
Result(p) ==
  [NoCall EXCEPT !.called = TRUE, !.key = ConcKey, !.policy = ConcPolicy,
                 !.entry = "live", !.zero = IsZero(procs[p].rd.lastUpdate),
                 !.stored = procs[p].rd.tokens,
                 !.elapsed = procs[p].t0 - procs[p].rd.lastUpdate,
                 !.balance = Computed(p), !.allowed = Allowed(Computed(p)),
                 !.retryAfter = IF Allowed(Computed(p)) THEN 0
                                ELSE SecondsToWait(Computed(p), ConcPolicy)]

\* updateBothStorages: primary.UpdateBucket(ctx, key, tokens, ttl)
UpdatePrimary(p) ==
  /\ procs[p].pc = "read"
  /\ primary' = UpdateBucket(primary, primaryKind, ConcKey, Persisted(Computed(p)),
                             TTL(ConcPolicy), now, FALSE)
  /\ procs' = [procs EXCEPT ![p].pc = "updated"]
  /\ touched' = touched \cup {ConcKey}
  /\ UNCHANGED <<now, primaryKind, others, fallback, calls, faults, idle, burst,
                 refill, last, refPrimary, refLast, batch>>
  /\ UNCHANGED <<httpVars, storeVars>>

\* updateBothStorages: fallback.UpdateBucket(ctx, key, tokens, ttl), and return
UpdateFallback(p) ==
  /\ procs[p].pc = "updated"
  /\ fallback' = UpdateBucket(fallback, "memory", ConcKey, Persisted(Computed(p)),
                              TTL(ConcPolicy), now, FALSE)
  /\ last' = Result(p)
  /\ batch' = IF procs[p].inBatch /\ batch.at = now /\ Result(p).allowed
                THEN [batch EXCEPT !.allowed = batch.allowed + 1]
                ELSE batch
  /\ procs' = [procs EXCEPT ![p] = IdleProc]
  /\ UNCHANGED <<now, primaryKind, others, primary, touched, calls, faults, idle,
                 burst, refill, refPrimary, refLast>>
  /\ UNCHANGED <<httpVars, storeVars>>

Step == \E p \in Procs : Begin(p) \/ Get(p) \/ UpdatePrimary(p) \/ UpdateFallback(p)

NextConc == Tick \/ Step

SpecConc == InitFault /\ [][NextConc]_vars

\* ----------------------------------------------------------- Storage calls
\* Goroutines call UpdateBucket and GetBucket on one key of one store, of the
\* kind primaryKind, while the clock stands still.

\* (mutant) the commands go out in a plain pipeline, served one by one
Pipelined(cmds) == [i \in 1..Len(cmds) |-> <<cmds[i]>>]

\* client.TxPipelined: the commands are wrapped in MULTI/EXEC, which the
\* server executes as one unit
TxPipelined(cmds) == <<cmds>>

Cmd(op, field, id, ttl) == [op |-> op, field |-> field, id |-> id, ttl |-> ttl]

\* the commands of RedisStorage.UpdateBucket
UpdateCmds(id, ttl) ==
  << Cmd("HSET", "tokens", id, ttl), Cmd("HSET", "lastUpdate", id, ttl),
     Cmd("EXPIRE", "expiry", id, ttl) >>

\* one Redis command applied to the key; EXPIRE with a duration of 0 deletes it
Apply(c, cmd) ==
  IF cmd.op = "HSET" THEN [c EXCEPT ![cmd.field] = cmd.id]
  ELSE IF cmd.op = "EXPIRE" /\ c # NoCell
    THEN IF cmd.ttl <= 0 THEN NoCell ELSE [c EXCEPT !.expiry = cmd.id]
  ELSE c

RECURSIVE ApplyAll(_, _)
ApplyAll(c, cmds) ==
  IF cmds = <<>> THEN c ELSE ApplyAll(Apply(c, Head(cmds)), Tail(cmds))

\* RedisStorage.GetBucket on the reply of HGETALL
RedisGot(c) ==
  IF c.tokens = 0 \/ c.lastUpdate = 0
    THEN [NoGot EXCEPT !.done = TRUE, !.missing = TRUE]
    ELSE [NoGot EXCEPT !.done = TRUE, !.tokens = c.tokens,
                       !.lastUpdate = c.lastUpdate]

\* UpdateBucket is called
StartUpdate(w) ==
  \E ttl \in Ttls :
    /\ workers[w].pc = "idle"
    /\ issued < MaxOps
    /\ issued' = issued + 1
    /\ workers' = [workers EXCEPT ![w] =
                     [IdleWorker EXCEPT
                        !.pc = IF primaryKind = "memory" THEN "lock" ELSE "wait",
                        !.id = issued', !.ttl = ttl]]
    /\ pending' = IF primaryKind = "memory" THEN pending
                  ELSE [pending EXCEPT ![w] = TxPipelined(UpdateCmds(issued', ttl))]
    /\ UNCHANGED <<cell, mutex>>
    /\ UNCHANGED <<bucketVars, concVars, httpVars>>

\* ims.mutex.Lock()
Lock(w) ==
  /\ workers[w].pc = "lock"
  /\ ~mutex.writer /\ mutex.readers = 0
  /\ mutex' = [mutex EXCEPT !.writer = TRUE]
  /\ workers' = [workers EXCEPT ![w].pc = "tokens"]
  /\ UNCHANGED <<cell, pending, issued>>
  /\ UNCHANGED <<bucketVars, concVars, httpVars>>

\* ims.buckets[key] = &bucketState{...}, one field at a time
Store(w) ==
  /\ workers[w].pc \in {"tokens", "lastUpdate", "expiry"}
  /\ cell' = [cell EXCEPT ![workers[w].pc] = workers[w].id]
  /\ workers' = [workers EXCEPT ![w].pc =
                   IF workers[w].pc = "tokens" THEN "lastUpdate"
                   ELSE IF workers[w].pc = "lastUpdate" THEN "expiry"
                   ELSE "unlock"]
  /\ UNCHANGED <<mutex, pending, issued>>
  /\ UNCHANGED <<bucketVars, concVars, httpVars>>

\* the deferred ims.mutex.Unlock()
Unlock(w) ==
  /\ workers[w].pc = "unlock"
  /\ mutex' = [mutex EXCEPT !.writer = FALSE]
  /\ workers' = [workers EXCEPT ![w].pc = "idle"]
  /\ UNCHANGED <<cell, pending, issued>>
  /\ UNCHANGED <<bucketVars, concVars, httpVars>>

\* GetBucket is called; RedisStorage sends HGETALL
StartGet(w) ==
  /\ workers[w].pc = "idle"
  /\ issued < MaxOps
  /\ issued' = issued + 1
  /\ workers' = [workers EXCEPT ![w] =
                   [IdleWorker EXCEPT
                      !.pc = IF primaryKind = "memory" THEN "rlock" ELSE "wait"]]
  /\ pending' = IF primaryKind = "memory" THEN pending
                ELSE [pending EXCEPT ![w] = << <<Cmd("HGETALL", "", 0, 0)>> >>]
  /\ UNCHANGED <<cell, mutex>>
  /\ UNCHANGED <<bucketVars, concVars, httpVars>>

\* ims.mutex.RLock()
RLock(w) ==
  /\ workers[w].pc = "rlock"
  /\ ~mutex.writer
  /\ mutex' = [mutex EXCEPT !.readers = @ + 1]
  /\ workers' = [workers EXCEPT ![w].pc = "readTokens"]
  /\ UNCHANGED <<cell, pending, issued>>
  /\ UNCHANGED <<bucketVars, concVars, httpVars>>

\* bucket, exists := ims.buckets[key]; return bucket.tokens, bucket.lastUpdate
Load(w) ==
  /\ workers[w].pc \in {"readTokens", "readLastUpdate"}
  /\ workers' = [workers EXCEPT ![w] =
       IF workers[w].pc = "readTokens"
         THEN IF cell = NoCell
                THEN [@ EXCEPT !.pc = "runlock", !.got.missing = TRUE]
                ELSE [@ EXCEPT !.pc = "readLastUpdate", !.got.tokens = cell.tokens]
         ELSE [@ EXCEPT !.pc = "runlock", !.got.lastUpdate = cell.lastUpdate]]
  /\ UNCHANGED <<cell, mutex, pending, issued>>
  /\ UNCHANGED <<bucketVars, concVars, httpVars>>

\* the deferred ims.mutex.RUnlock(), and return
RUnlock(w) ==
  /\ workers[w].pc = "runlock"
  /\ mutex' = [mutex EXCEPT !.readers = @ - 1]
  /\ workers' = [workers EXCEPT ![w].pc = "idle", ![w].got.done = TRUE]
  /\ UNCHANGED <<cell, pending, issued>>
  /\ UNCHANGED <<bucketVars, concVars, httpVars>>

\* The Redis server serves the next unit a client sent: the commands of a
\* MULTI/EXEC together, any other command alone.  The call returns when its
\* last unit has been served.
Serve(w) ==
  /\ pending[w] # <<>>
  /\ cell' = ApplyAll(cell, Head(pending[w]))
  /\ pending' = [pending EXCEPT ![w] = Tail(@)]
  /\ workers' = [workers EXCEPT
       ![w].pc = IF Tail(pending[w]) = <<>> THEN "idle" ELSE "wait",
       ![w].got = IF Head(pending[w])[1].op = "HGETALL" THEN RedisGot(cell) ELSE @]
  /\ UNCHANGED <<mutex, issued>>
  /\ UNCHANGED <<bucketVars, concVars, httpVars>>

StoreStep ==
  \E w \in Workers :
    \/ StartUpdate(w) \/ Lock(w) \/ Store(w) \/ Unlock(w)
    \/ StartGet(w) \/ RLock(w) \/ Load(w) \/ RUnlock(w)
    \/ Serve(w)

NextStore == StoreStep

SpecStore == InitFault /\ [][NextStore]_vars

\* ------------------------------------------------------------- middleware
\* hex.EncodeToString(sha256.Sum256([]byte(s))): distinct strings of the model
\* have distinct digests, and no digest is one of those strings
Sha256Hex(str) == <<"sha256", str>>

\* (mutant) the presented token is compared with the digest of the valid one
ValidateBypassTokenUnhashed(sc, token) ==
  /\ token # ""
  /\ \E validToken \in sc.BypassTokens : <<"plain", token>> = Sha256Hex(validToken)

ValidateBypassToken(sc, token) ==
  /\ token # ""
  /\ \E validToken \in sc.BypassTokens : Sha256Hex(token) = Sha256Hex(validToken)

IsIPWhitelisted(sc, ip) == \E whitelistedIP \in sc.WhitelistIPs : ip = whitelistedIP

\* cfg.Redis != nil: RateLimiter makes a RedisStorage the primary exactly then
RedisConfigured == primaryKind = "redis"

\* GET of the block key returns a value: the key is present and has not expired
BlockKeyPresent(B, ip, t) == B[ip] # NoBlock /\ t < B[ip]

\* checkIPBlocked: c.Status(429).JSON(...) sets the status and returns nil
checkIPBlocked(ip, redis, B, Fd, t) ==
  IF redis /\ BlockKeyPresent(B, ip, t) THEN [isBlocked |-> TRUE, status |-> 429]
  ELSE IF redis /\ Fd[ip] > 0 THEN [isBlocked |-> FALSE, status |-> 429]
  ELSE [isBlocked |-> FALSE, status |-> 0]

\* checkSecurity: for a blocked IP it returns (false, c.Status(429).JSON(...)),
\* and JSON returns nil, so its error is nil on every path
checkSecurity(req, redis, B, Fd, t) ==
  IF ValidateBypassToken(GlobalSecurity, req.token)
    THEN [bypass |-> TRUE, err |-> FALSE, status |-> 0]
  ELSE IF IsIPWhitelisted(GlobalSecurity, req.ip)
    THEN [bypass |-> TRUE, err |-> FALSE, status |-> 0]
  ELSE [bypass |-> FALSE, err |-> FALSE,
        status |-> checkIPBlocked(req.ip, redis, B, Fd, t).status]

\* (mutant) the attempt is counted whether or not a Redis client is configured
recordFailedAttemptAlways(ip, redis, Fd) ==
  [failed |-> [Fd EXCEPT ![ip] = @ + 1], panicked |-> redis]

\* recordFailedAttempt: the pipeline INCR, EXPIRE, GET runs, then
\* results[1].(*redis.IntCmd) is asserted on the *redis.BoolCmd of EXPIRE and
\* panics; the block is computed and written after that line
recordFailedAttempt(ip, redis, Fd) ==
  IF redis THEN [failed |-> [Fd EXCEPT ![ip] = @ + 1], panicked |-> TRUE]
  ELSE [failed |-> Fd, panicked |-> FALSE]

\* (mutant) no path is skipped
SkippedNever(path) == FALSE

\* RateLimiter: c.Path() equals an entry of cfg.SkipPaths
Skipped(path) == \E skip \in SkipPaths : path = skip

\* (mutant) a WebSocket upgrade is taken for every tier
WebSocketRejectedNever(policy) == FALSE

\* HandleWebSocketUpgrade: !policy.WebSocketAllowed
WebSocketRejected(policy) == ~policy.WebSocketAllowed

\* (mutant) an empty tier is looked up as it is
ResolveEmptyTier(c, tier) ==
  IF tier \in DOMAIN c.TierPolicy THEN c.TierPolicy[tier] ELSE c.DefaultPolicy

\* tier "" is "free"; a tier with no entry in cfg.TierPolicy gets DefaultPolicy
Resolve(c, tier) ==
  LET t == IF tier = "" THEN "free" ELSE tier
  IN IF t \in DOMAIN c.TierPolicy THEN c.TierPolicy[t] ELSE c.DefaultPolicy

\* the policy of a tier under the configuration as passed to RateLimiter
PolicyOf(tier) == Resolve(Config, tier)

\* (mutant) the map holds the policy the handler halves
AfterHalvingShared(c, tier, policy) ==
  LET t == IF tier = "" THEN "free" ELSE tier
  IN IF t \in DOMAIN c.TierPolicy
       THEN [c EXCEPT !.TierPolicy[t] = policy]
       ELSE [c EXCEPT !.DefaultPolicy = policy]

\* policy, ok := cfg.TierPolicy[tier] copies the Policy struct out of the map
\* (policy = cfg.DefaultPolicy copies it too), so the assignments to
\* policy.TokensPerSecond and policy.BurstCapacity leave cfg as it is
AfterHalving(c, tier, policy) == c

\* HandleHTTPRequest: the policy of an unauthenticated caller is halved when
\* the tier requires authentication (BurstCapacity by integer division)
Halved(policy, req) ==
  IF policy.RequireAuthentication /\ Identifier(req) = req.ip
    THEN [policy EXCEPT !.TokensPerSecond = policy.TokensPerSecond \div 2,
                        !.BurstCapacity = policy.BurstCapacity \div 2]
    ELSE policy

\* the fields of a policy that checkTokenBucket reads
Bucket(policy) ==
  [BurstCapacity |-> policy.BurstCapacity, TokensPerSecond |-> policy.TokensPerSecond]

\* a request that does not reach checkTokenBucket
NoBucketCall ==
  /\ calls < MaxCalls
  /\ calls' = calls + 1
  /\ UNCHANGED <<now, primaryKind, others, primary, fallback, touched, faults,
                 idle, burst, refill, last, refPrimary, refLast>>
  /\ UNCHANGED <<concVars, storeVars>>

\* what the middleware has done when checkSecurity has returned
Secured(req, sec) ==
  [NoResp EXCEPT !.handled = TRUE, !.req = req, !.security = TRUE,
                 !.status = sec.status]

\* RateLimiter: a skipped path goes to the next handler at once
SkipPath(req) ==
  /\ NoBucketCall
  /\ resp' = [NoResp EXCEPT !.handled = TRUE, !.req = req, !.next = TRUE]
  /\ UNCHANGED <<failed, blocked, cfg>>

HandleWebSocketUpgrade(req) ==
  LET sec == checkSecurity(req, RedisConfigured, blocked, failed, now)
      policy == Resolve(cfg, req.tier)
      key == BucketKey(Identifier(req), Endpoint[req.path], TRUE)
      r == checkTokenBucket(primary, fallback, primaryKind, key, Bucket(policy),
                            now, now, NoFailure)
  IN IF sec.bypass
       THEN /\ NoBucketCall
            /\ resp' = [Secured(req, sec) EXCEPT !.next = TRUE]
            /\ UNCHANGED <<failed, blocked, cfg>>
     ELSE IF WebSocketRejected(policy)
       THEN /\ NoBucketCall
            /\ resp' = [Secured(req, sec) EXCEPT !.status = 403, !.policy = policy]
            /\ UNCHANGED <<failed, blocked, cfg>>
     ELSE /\ Call(key, Bucket(policy), 0, NoFailure)
          /\ resp' = [Secured(req, sec) EXCEPT
                        !.policy = policy,
                        !.bucket = TRUE,
                        !.allowed = r.ret.allowed,
                        !.left = Persisted(r.ret.balance),
                        !.status = IF r.ret.err THEN 500
                                   ELSE IF ~r.ret.allowed THEN 429
                                   ELSE sec.status,
                        !.next = ~r.ret.err /\ r.ret.allowed]
          /\ UNCHANGED <<failed, blocked, cfg, refPrimary, refLast>>

HandleHTTPRequest(req) ==
  LET sec == checkSecurity(req, RedisConfigured, blocked, failed, now)
      resolved == Resolve(cfg, req.tier)
      policy == Halved(resolved, req)
      endpoint == Endpoint[req.path]
      key == BucketKey(Identifier(req), endpoint, FALSE)
      r == checkTokenBucket(primary, fallback, primaryKind, key, Bucket(policy),
                            now, now, NoFailure)
      records == ~r.ret.err /\ ~r.ret.allowed /\ IsAuthEndpoint(endpoint)
      rec == recordFailedAttempt(req.ip, RedisConfigured, failed)
  IN IF sec.bypass
       THEN /\ NoBucketCall
            /\ resp' = [Secured(req, sec) EXCEPT !.next = TRUE]
            /\ UNCHANGED <<failed, blocked, cfg>>
     ELSE /\ Call(key, Bucket(policy), 0, NoFailure)
          /\ resp' = [Secured(req, sec) EXCEPT
                        !.policy = resolved,
                        !.bucket = TRUE,
                        !.allowed = r.ret.allowed,
                        !.left = Persisted(r.ret.balance),
                        !.remaining = IF r.ret.err THEN -1 ELSE policy.BurstCapacity,
                        !.recorded = records,
                        !.panicked = records /\ rec.panicked,
                        !.status = IF r.ret.err THEN 500
                                   ELSE IF ~r.ret.allowed
                                     THEN (IF rec.panicked /\ records
                                             THEN sec.status ELSE 429)
                                   ELSE sec.status,
                        !.next = ~r.ret.err /\ r.ret.allowed]
          /\ failed' = IF records THEN rec.failed ELSE failed
          /\ cfg' = AfterHalving(cfg, req.tier, policy)
          /\ UNCHANGED <<blocked, refPrimary, refLast>>

\* The handler RateLimiter returns, serving one request.  A panic unwinds the
\* handler; the requests after it are served by a process that recovers it.
Request ==
  \E req \in Requests :
    /\ calls < MaxReqs
    /\ IF Skipped(req.path) THEN SkipPath(req)
       ELSE IF req.ws THEN HandleWebSocketUpgrade(req)
       ELSE HandleHTTPRequest(req)

NextHTTP == Tick \/ Request

\* Redis outlives the process: the block key of a source IP, expiring before
\* the last clock reading, may be present when the middleware is constructed
InitialBlocks ==
  {NoBlocks, [NoBlocks EXCEPT !["203.0.113.9"] = MaxTime - 1]}

InitHTTP ==
  /\ InitBuckets({0})
  /\ InitIdle
  /\ blocked \in InitialBlocks
  /\ ~RedisConfigured => blocked = NoBlocks

SpecHTTP == InitHTTP /\ [][NextHTTP]_vars

\* ================================================================ claims
\* the call recorded in last returned without an error
Returned == last.called /\ ~last.err

\* C1: from a key never written to either store, BurstCapacity immediate
\* checks are all allowed with retryAfter 0 and no error, and the next
\* immediate check is denied with retryAfter >= 1.
C1_BurstThenDeny ==
  burst > 0 =>
    /\ burst <= last.policy.BurstCapacity =>
         (last.allowed /\ last.retryAfter = 0 /\ ~last.err)
    /\ burst = last.policy.BurstCapacity + 1 =>
         (~last.allowed /\ last.retryAfter >= 1)

\* C2: a check that finds the key's entry expired starts from
\* tokens = BurstCapacity and is allowed with retryAfter 0.
C2_ExpiredStartsFull ==
  (Returned /\ last.entry = "expired") =>
    /\ last.balance = Capacity(last.policy)
    /\ last.allowed
    /\ last.retryAfter = 0

\* C3: GetBucket on a missing or expired key returns tokens 0, the zero time
\* and no error, in either store implementation.
C3_MissingReadsZeroTime ==
  (Returned /\ last.entry \in {"missing", "expired"}) =>
    (last.zero /\ last.stored = 0)

\* C4: after BurstCapacity immediate checks, the check made 1/TokensPerSecond
\* seconds later is allowed with retryAfter 0, and the immediate check after
\* it is denied.
C4_OneTokenRefilled ==
  /\ refill = 1 => (last.allowed /\ last.retryAfter = 0)
  /\ refill = 2 => ~last.allowed

\* tokens the stores hold for the key of the last call
Held(store) == store[last.key].tokens

\* C5 as claimed: on a check of an existing key the balance is
\* min(BurstCapacity, stored + elapsed * TokensPerSecond), the refill never
\* lowers the balance, and the persisted balance never exceeds BurstCapacity.
C5_RefillNeverLowers ==
  (Returned /\ last.entry = "live") =>
    /\ last.balance = Min(Capacity(last.policy),
                          last.stored + last.elapsed * last.policy.TokensPerSecond)
    /\ last.balance >= last.stored
    /\ Held(primary) <= Capacity(last.policy)
    /\ Held(fallback) <= Capacity(last.policy)

\* C5 (amended): on a check of an existing key the balance is
\* min(BurstCapacity, stored + elapsed * TokensPerSecond); the refill lowers
\* the balance only when the stored tokens exceed the BurstCapacity of the
\* policy of this check, and then to exactly BurstCapacity; the persisted
\* balance never exceeds BurstCapacity.
C5_RefillCapped ==
  (Returned /\ last.entry = "live") =>
    /\ last.elapsed >= 0
    /\ last.balance >= Min(last.stored, Capacity(last.policy))
    /\ last.balance <= Capacity(last.policy)
    /\ last.balance - last.stored <= last.elapsed * last.policy.TokensPerSecond
    /\ last.balance < Capacity(last.policy) =>
         last.balance - last.stored = last.elapsed * last.policy.TokensPerSecond
    /\ Held(primary) <= Capacity(last.policy)
    /\ Held(fallback) <= Capacity(last.policy)

\* the cap was reached by a refill of an existing key
C5_Witness ==
  /\ Returned /\ last.entry = "live"
  /\ last.stored <= Capacity(last.policy)
  /\ last.stored + last.elapsed * last.policy.TokensPerSecond > Capacity(last.policy)
  /\ last.balance = Capacity(last.policy)

\* C6: a denial carries retryAfter = max(1, ceil((1 - tokens) / TokensPerSecond))
\* for the refilled balance tokens, so retryAfter >= 1; an allowed check
\* carries retryAfter = 0.
C6_RetryAfter ==
  Returned =>
    IF last.allowed
      THEN last.retryAfter = 0 /\ last.balance >= Scale
      ELSE /\ last.balance < Scale
           /\ last.retryAfter >= 1
           /\ last.retryAfter * last.policy.TokensPerSecond >= Scale - last.balance
           /\ \/ last.retryAfter = 1
              \/ (last.retryAfter - 1) * last.policy.TokensPerSecond
                   < Scale - last.balance

\* a denial whose wait is longer than the one-second floor and not a whole
\* multiple of the refill time of a token unit
C6_Witness ==
  /\ Returned /\ ~last.allowed /\ last.retryAfter >= 2
  /\ (Scale - last.balance) % last.policy.TokensPerSecond # 0

\* C7: a check on one key leaves the stored state of every other key unchanged
\* in both stores, and a key not yet checked is still at full capacity.
C7_KeysIsolated ==
  [][calls' # calls =>
       /\ \A k \in Keys \ {last'.key} :
            primary'[k] = primary[k] /\ fallback'[k] = fallback[k]
       /\ last'.key \notin touched =>
            (last'.balance = Capacity(last'.policy) /\ last'.allowed)]_vars

\* C8: with a primary that fails on every call each check returns no error
\* and the same (allowed, retryAfter) as the same call in the reference run.
C8_FailoverSameResults ==
  last.called =>
    /\ ~last.err
    /\ last.allowed = refLast.allowed
    /\ last.retryAfter = refLast.retryAfter

\* C9: when GetBucket fails on the primary and on the fallback the check
\* returns the error with allowed = FALSE and retryAfter = 0 and leaves both
\* stores unchanged; a failed primary read alone is not returned as an error.
C9_ReadFailures ==
  [][calls' # calls =>
       /\ (last'.f.pr /\ last'.f.fr) =>
            /\ last'.err /\ ~last'.allowed /\ last'.retryAfter = 0
            /\ primary' = primary /\ fallback' = fallback /\ touched' = touched
       /\ (last'.f.pr /\ ~last'.f.fr) => ~last'.err]_vars

\* both reads failed for a key that had a stored bucket
C9_Witness ==
  /\ last.called /\ last.f.pr /\ last.f.fr /\ last.err
  /\ last.key \in touched

\* the call of last, made from the same state with every write succeeding
SameCallWritesOk ==
  checkTokenBucket(primary, fallback, primaryKind, last'.key, last'.policy,
                   now, now', [last'.f EXCEPT !.pw = FALSE, !.fw = FALSE])

\* C10: a failing UpdateBucket on either store or both leaves the returned
\* allowed, retryAfter and err as they are without the failure (err nil
\* unless both reads failed), and the write to the other store is still made.
C10_WriteFailuresAbsorbed ==
  [][calls' # calls =>
       /\ last'.allowed = SameCallWritesOk.ret.allowed
       /\ last'.retryAfter = SameCallWritesOk.ret.retryAfter
       /\ last'.err = SameCallWritesOk.ret.err
       /\ last'.err = (last'.f.pr /\ last'.f.fr)
       /\ ~last'.f.pw => primary' = SameCallWritesOk.primary
       /\ ~last'.f.fw => fallback' = SameCallWritesOk.fallback]_vars

\* a check was allowed although its primary write failed, and the fallback
\* holds what it wrote
C10_Witness ==
  /\ last.called /\ last.f.pw /\ ~last.f.fw /\ ~last.f.pr
  /\ last.allowed /\ ~last.err
  /\ fallback[last.key].present
  /\ fallback[last.key].tokens = last.balance - Scale
  /\ primary[last.key] # fallback[last.key]

\* C11: the calls made on one key at one clock reading, beginning when no call
\* was running, behave as in some sequential order: no more of them return
\* allowed = true than the key had whole tokens when they began.
C11_Serializable == batch.allowed <= batch.avail

\* C12: an allowed check stays consumed whatever Storage calls fail: a check
\* of the same key under the same policy at the same clock reading finds at
\* least one token less, so no more than BurstCapacity checks are allowed at
\* one clock reading.
C12_AllowedStaysConsumed ==
  [][(/\ calls' # calls
      /\ last.called /\ ~last.err /\ last.allowed
      /\ idle = 0 /\ now' = now
      /\ last'.key = last.key /\ last'.policy = last.policy
      /\ ~last'.err)
       => last'.balance <= last.balance - Scale]_vars

\* the request of resp carries a configured bypass token
ValidToken(req) == req.token # "" /\ req.token \in GlobalSecurity.BypassTokens

\* the key the request of resp is checked on
KeyOf(req) == BucketKey(Identifier(req), Endpoint[req.path], req.ws)

\* C13: a request with a non-empty X-RateLimit-Bypass value equal to a
\* configured bypass token is passed to the next handler, whatever its bucket
\* holds and whether or not its IP is blocked, with no GetBucket and no
\* UpdateBucket: both stores are left as they were.
C13_BypassToken ==
  [][(calls' # calls /\ ValidToken(resp'.req)) =>
       /\ resp'.next /\ ~resp'.bucket
       /\ primary' = primary /\ fallback' = fallback /\ last' = last]_vars

\* a bypass token was honoured for a blocked IP whose bucket is empty
C13_Witness ==
  /\ resp.handled /\ ValidToken(resp.req) /\ ~Skipped(resp.req.path)
  /\ resp.next
  /\ BlockKeyPresent(blocked, resp.req.ip, now)
  /\ Live(primary[KeyOf(resp.req)], now)
  /\ primary[KeyOf(resp.req)].tokens < Scale

\* the addresses of the model inside a whitelist entry in CIDR notation
CIDRContains(entry, ip) == entry = "10.0.0.0/24" /\ ip \in {"10.0.0.5"}

\* C14: a request whose source IP equals a whitelist entry or lies inside a
\* listed CIDR range bypasses rate limiting as a valid bypass token does: it
\* is passed to the next handler and no bucket check is run.
C14_Whitelist ==
  (/\ resp.handled /\ ~Skipped(resp.req.path)
   /\ \E entry \in GlobalSecurity.WhitelistIPs :
         resp.req.ip = entry \/ CIDRContains(entry, resp.req.ip))
    => (resp.next /\ ~resp.bucket)

\* C15: while the block key of the source IP is present, a request with no
\* valid bypass token from an IP that is not whitelisted ends as blocked
\* (429): the next handler is not invoked and no bucket check is run.
C15_BlockedRequestEnds ==
  (/\ resp.handled /\ resp.security
   /\ RedisConfigured /\ BlockKeyPresent(blocked, resp.req.ip, now)
   /\ ~ValidToken(resp.req)
   /\ ~IsIPWhitelisted(GlobalSecurity, resp.req.ip))
    => (resp.status = 429 /\ ~resp.next /\ ~resp.bucket)

\* seconds in 24 hours and in 5 minutes
Day == 86400

FiveMinutes == 300

\* min(24h, BlockDuration + (count - MaxFailedAttempts) * 5min), in seconds
C16_BlockSeconds(count) ==
  Min(Day, GlobalSecurity.BlockDuration
             + (count - GlobalSecurity.MaxFailedAttempts) * FiveMinutes)

\* C16: when recordFailedAttempt finds count >= MaxFailedAttempts it writes a
\* block that lasts min(24h, BlockDuration + (count - MaxFailedAttempts) * 5min).
C16_ProgressiveBlock ==
  [][(/\ calls' # calls /\ resp'.recorded /\ RedisConfigured
      /\ failed'[resp'.req.ip] >= GlobalSecurity.MaxFailedAttempts)
       => blocked'[resp'.req.ip] = now' + C16_BlockSeconds(failed'[resp'.req.ip])]_vars

C18_WebSocketForbidden ==
  [][(/\ calls' # calls /\ resp'.req.ws
      /\ ~PolicyOf(resp'.req.tier).WebSocketAllowed)
       => /\ resp'.status = 403 /\ ~resp'.next /\ ~resp'.bucket
          /\ primary' = primary /\ fallback' = fallback]_vars

\* C18 (amended): every WebSocket upgrade of such a tier that is not on a
\* skipped path, carries no valid bypass token and does not come from an IP
\* equal to a whitelist entry is rejected with 403, is not passed to the next
\* handler and runs no bucket check.
C18_WebSocketForbiddenUnlessBypassed ==
  [][(/\ calls' # calls /\ resp'.req.ws
      /\ ~PolicyOf(resp'.req.tier).WebSocketAllowed
      /\ resp'.req.path \notin SkipPaths
      /\ ~ValidToken(resp'.req)
      /\ resp'.req.ip \notin GlobalSecurity.WhitelistIPs)
       => /\ resp'.status = 403 /\ ~resp'.next /\ ~resp'.bucket
          /\ primary' = primary /\ fallback' = fallback]_vars

\* a WebSocket upgrade of the free tier was rejected
C18_Witness ==
  /\ resp.handled /\ resp.req.ws /\ resp.security
  /\ ~PolicyOf(resp.req.tier).WebSocketAllowed
  /\ ~ValidToken(resp.req)
  /\ resp.status = 403 /\ ~resp.next

\* C19: a request whose path equals an entry of SkipPaths is passed to the
\* next handler with no security check and no bucket check, and every bucket,
\* failed-attempt counter and block is left unchanged.
C19_SkipPaths ==
  [][(calls' # calls /\ resp'.req.path \in SkipPaths) =>
       /\ resp'.next /\ ~resp'.security /\ ~resp'.bucket /\ resp'.status = 0
       /\ primary' = primary /\ fallback' = fallback
       /\ failed' = failed /\ blocked' = blocked]_vars

\* a skipped path was served for an IP whose block key is present, after a
\* request that wrote a bucket
C19_Witness ==
  /\ resp.handled /\ resp.req.path \in SkipPaths /\ resp.next
  /\ BlockKeyPresent(blocked, resp.req.ip, now)
  /\ touched # {}

\* C20: on an HTTP response that went through the token bucket,
\* X-RateLimit-Remaining is the number of whole tokens left in the bucket
\* after the check.
C20_RemainingHeader ==
  (resp.handled /\ resp.bucket /\ ~resp.req.ws /\ resp.remaining # -1)
    => resp.remaining = Max(0, resp.left) \div Scale

\* the request of resp reached the resolution of its tier's policy: its path is
\* not skipped and checkSecurity did not make it bypass
ReachedTier(r) ==
  /\ r.handled /\ r.security
  /\ ~ValidToken(r.req) /\ ~IsIPWhitelisted(GlobalSecurity, r.req.ip)

\* C21: the policy applied to a request is TierPolicy[tier] when tier is a key
\* of TierPolicy and DefaultPolicy otherwise, an empty tier counting as "free";
\* resolving it changes no state: the configuration is left as it was, and a
\* request that ends at the tier's WebSocket test leaves every store, counter
\* and block as it was.
C21_PolicyResolution ==
  [][(calls' # calls /\ ReachedTier(resp')) =>
       /\ resp'.policy =
            (IF resp'.req.tier \in {"", "free"} THEN TierPolicy["free"]
             ELSE IF resp'.req.tier \in Tiers THEN TierPolicy[resp'.req.tier]
             ELSE DefaultPolicy)
       /\ cfg' = cfg
       /\ resp'.status = 403 =>
            /\ primary' = primary /\ fallback' = fallback
            /\ failed' = failed /\ blocked' = blocked]_vars

\* a request of a tier with no entry in TierPolicy was checked under
\* DefaultPolicy, after a request with an empty tier
C21_Witness ==
  /\ ReachedTier(resp) /\ resp.req.tier = "gold"
  /\ resp.policy = DefaultPolicy
  /\ resp.bucket /\ last.policy = Bucket(DefaultPolicy)
  /\ calls = 2

\* BurstCapacity / 2 and TokensPerSecond * 0.5 of a configured policy
C30_Half(policy) ==
  [BurstCapacity |-> policy.BurstCapacity \div 2,
   TokensPerSecond |-> policy.TokensPerSecond \div 2]

C28_RecordCompletes ==
  [][(calls' # calls /\ resp'.recorded /\ RedisConfigured) =>
       /\ failed' = [failed EXCEPT ![resp'.req.ip] = @ + 1]
       /\ ~resp'.panicked
       /\ IF failed'[resp'.req.ip] >= GlobalSecurity.MaxFailedAttempts
            THEN BlockKeyPresent(blocked', resp'.req.ip, now')
            ELSE blocked' = blocked]_vars

\* C29: nothing lowers or clears a failed-attempt counter, and a request that
\* is allowed, bypassed or made while the block key of its IP is present, as
\* well as the passing of time over the expiry of a block, leaves every counter
\* as it was.
C29_CounterUnchanged ==
  [][/\ \A ip \in IPs : failed'[ip] >= failed[ip]
     /\ calls' = calls => failed' = failed
     /\ (/\ calls' # calls
         /\ \/ resp'.next
            \/ resp'.security /\ ~ReachedTier(resp')
            \/ BlockKeyPresent(blocked, resp'.req.ip, now))
          => failed' = failed]_vars

\* C25: the entry a check writes lives for the full-refill time of its policy:
\* its TTL times TokensPerSecond is BurstCapacity, whether or not
\* BurstCapacity / TokensPerSecond is a whole number of seconds.
C25_FullRefillTTL ==
  (Returned /\ fallback[last.key].present) =>
    (fallback[last.key].expiry - fallback[last.key].lastUpdate)
       * last.policy.TokensPerSecond = Capacity(last.policy)

\* C26: the tokens value stored for a key, in either store, is never negative.
C26_TokensNonNegative ==
  \A key \in Keys :
    /\ primary[key].present => primary[key].tokens >= 0
    /\ fallback[key].present => fallback[key].tokens >= 0

\* the balance a check of the key under the policy would see at reading t
C27_BalanceAt(store, key, policy, t) ==
  Balance(GetBucket(store, key, t, FALSE), t, policy)

\* C27: a denied check of a key whose bucket is stored consumes nothing: at
\* every later reading at which the bucket is stored, and would be had the
\* denied check not been made, a check sees the balance it would have seen
\* without the denied check.
C27_DeniedConsumesNothing ==
  [][(/\ calls' # calls /\ ~last'.err /\ ~last'.allowed
      /\ Live(primary[last'.key], now'))
       => \A t \in now'..MaxTime :
            (Live(primary[last'.key], t) /\ Live(primary'[last'.key], t)) =>
              C27_BalanceAt(primary', last'.key, last'.policy, t)
                = C27_BalanceAt(primary, last'.key, last'.policy, t)]_vars

\* C23: whenever no check is running (no Storage write ever fails here), the
\* primary and the fallback hold the same tokens value for every key.
C23_StoresAgree ==
  AllIdle =>
    \A key \in Keys :
      /\ primary[key].present = fallback[key].present
      /\ primary[key].tokens = fallback[key].tokens

\* C22: after checks with both stores healthy, the first check whose primary
\* read fails returns the (allowed, retryAfter) it would have returned with the
\* primary still answering.
C22_WarmFallback ==
  [][(calls' # calls /\ faults = 0 /\ last'.f.pr /\ ~last'.err) =>
       /\ last'.allowed = refLast'.allowed
       /\ last'.retryAfter = refLast'.retryAfter]_vars

\* no Storage call is running
Quiescent == \A w \in Workers : workers[w].pc = "idle"

\* C24: under concurrent UpdateBucket and GetBucket calls on one key, a
\* GetBucket that finds the key returns the tokens and the lastUpdate written
\* by one UpdateBucket, and once no call is running the stored tokens,
\* lastUpdate and expiry are those of one UpdateBucket.
C24_AtomicUpdate ==
  /\ \A w \in Workers :
       (workers[w].got.done /\ ~workers[w].got.missing) =>
         /\ workers[w].got.tokens # 0
         /\ workers[w].got.tokens = workers[w].got.lastUpdate
  /\ (Quiescent /\ cell # NoCell) =>
       /\ cell.tokens # 0
       /\ cell.tokens = cell.lastUpdate
       /\ cell.tokens = cell.expiry

\* a GetBucket returned the fields of one UpdateBucket, the key has been
\* written by another since, and a further UpdateBucket is running
C24_Witness ==
  \E r \in Workers, u \in Workers :
    /\ r # u
    /\ workers[r].got.done /\ workers[r].got.tokens # 0
    /\ cell # NoCell /\ cell.tokens # workers[r].got.tokens
    /\ workers[u].id # 0 /\ workers[u].pc # "idle"

\* the caller, the endpoint route and the kind of channel of a request
Triple(req) == <<Identifier(req), req.path, req.ws>>

\* C31: two requests that differ in caller, endpoint route or kind of channel
\* (HTTP or WebSocket upgrade) never draw from the same bucket: when two
\* requests served one after the other both reach checkTokenBucket and their
\* triples differ, the keys of their checks differ.
C31_OneBucketPerTriple ==
  [][ ( /\ resp.bucket
        /\ resp'.bucket
        /\ calls' # calls
        /\ Triple(resp.req) # Triple(resp'.req) )
      => last'.key # last.key ]_vars

\* C32: the advertised wait is sufficient: when a check of a key was denied
\* with retryAfter = r and the next check of that key, under the same policy,
\* starts r or more seconds after the denied one returned, it is allowed.
C32_AdvertisedWaitSuffices ==
  [][ ( /\ calls' # calls
        /\ last.called /\ ~last.err /\ ~last.allowed
        /\ last'.key = last.key
        /\ last'.policy = last.policy
        /\ idle >= last.retryAfter )
      => last'.allowed ]_vars

\* C33: whenever the configured policy of a request's tier has
\* BurstCapacity >= 1 and TokensPerSecond > 0, so has the policy handed to
\* checkTokenBucket for it, the halving for unauthenticated callers included.
C33_PolicyAdmits ==
  ( /\ resp.bucket
    /\ resp.policy.BurstCapacity >= 1
    /\ resp.policy.TokensPerSecond > 0 )
  => ( /\ last.policy.BurstCapacity >= 1
       /\ last.policy.TokensPerSecond > 0 )

\* C34: with cfg.Redis nil the security gate keeps no state: a request leaves
\* the failed-attempt counters and the blocks as they were (none), a call of
\* recordFailedAttempt returns normally, no request is answered by the gate
\* (a request that reaches its bucket and is allowed there goes to the next
\* handler with no status set, and a 429 comes from a denied bucket check
\* only), while a request with a configured bypass token or from a listed IP
\* still goes to the next handler without a bucket check.
C34_NoGateStateWithoutRedis ==
  [][ (~RedisConfigured /\ calls' # calls) =>
        /\ failed' = failed /\ failed = [ip \in IPs |-> 0]
        /\ blocked' = blocked /\ blocked = NoBlocks
        /\ ~resp'.panicked
        /\ (resp'.bucket /\ resp'.allowed) => (resp'.next /\ resp'.status = 0)
        /\ resp'.status = 429 => (resp'.bucket /\ ~resp'.allowed)
        /\ ( /\ ~Skipped(resp'.req.path)
             /\ \/ ValidToken(resp'.req)
                \/ IsIPWhitelisted(GlobalSecurity, resp'.req.ip) )
           => (resp'.next /\ ~resp'.bucket /\ last' = last) ]_vars

\* with no Redis client, a second request to the login route was denied by its
\* bucket and handed to recordFailedAttempt, and nothing is counted or blocked
C34_Witness ==
  /\ ~RedisConfigured
  /\ resp.recorded /\ ~resp.panicked /\ resp.status = 429
  /\ last.entry = "live"
  /\ failed[resp.req.ip] = 0
  /\ blocked = NoBlocks

====
